---- MODULE Spec2Model ----
(***************************************************************************)
(* Model of the cocotb test bench of the SDRAM controller                  *)
(* (sim/cocotb): the constrained-random stimulus generator, the two bus    *)
(* functional models (tests/bus.py, strobe based, and tb/bus.py, valid     *)
(* based), the read-response monitors and the test coroutines that wire    *)
(* them together.                                                          *)
(***************************************************************************)
EXTENDS Integers, Sequences, FiniteSets, TLC

\* ------------------------------------------------------------------------
\* Bounds of the model
\* ------------------------------------------------------------------------
\* largest num_op (number of operations) a generator is called with
MaxNumOp == 2
\* largest num_seq (number of address/data pairs in the pool)
MaxNumSeq == 2
\* random addresses are drawn from 0..MaxAddr (the code: 0..0xFFFFFF)
MaxAddr == 1
\* random data words are drawn from 0..MaxData (the code: 0..0xFFFF)
MaxData == 1

AddrRange == 0..MaxAddr
DataRange == 0..MaxData

\* The three copies of the random test:
\*   "test_random"   tests/test_random.py            (queued monitor, Reporter)
\*   "test_basic"    test_basic.py                   (queued monitor, no Reporter)
\*   "cocotb_random" tests/sdram/cocotb_random_test.py (single-shot monitor)
Variants == {"test_random", "test_basic", "cocotb_random"}

\* The two copies of the sequential test:
\*   "test_sequential" tests/test_sequential.py   (tests/bus.py, queued monitor)
\*   "tb_sequential"   tests/sdram_controller/test_sequential.py
\*                                      (tb/bus.py, one monitor per read)
SeqVariants == {"test_sequential", "tb_sequential"}

\* The two copies of the single read test:
\*   "test_read"   tests/sdram_controller/test_basic.py (the value is not used)
\*   "simple_read" tests/sdram/cocotb_basic_test.py     (assert data == rdata)
BasicVariants == {"test_read", "simple_read"}

\* write2read of the pipeline tests (tests/sdram/cocotb_pipeline_test.py,
\* tests/sdram_controller/test_pipeline.py): two writes and a read, with
\* single_read_resp awaited after single_read has returned
PipeVariants == {"write2read"}

\* the tests that end after their last Timer, with no monitor task to await
NoJoinVariants == {"auto_refresh"} \cup PipeVariants

\* largest number of locations of a sequential test ((end_addr-start_addr)/2)
MaxNum == 2
\* largest num_seq of the runs of the random tests
MaxRunSeq == 1
\* wait cycles of one bus request are counted up to MaxWait
MaxWait == 1
\* requests the target accepts beyond the operations of the test
MaxExtra == 1
\* responses the target sends beyond the reads it accepted
MaxSpurious == 1

Tasks == {"test", "mon"}

VARIABLES
    stimulus,       \* the list of (addr, data) of the manual precharge tests
    gen_call,       \* a call of addr_gen: its arguments and its return value
    cl,             \* test parameter: the CAS latency passed as cas
    clk_freq,       \* the clock frequency of the environment (CLK_FREQ)
    variant,        \* which copy of the random test runs
    num_op,         \* parameter: number of operations
    num_seq,        \* parameter: number of address/data pairs
    addr_data,      \* the pool: sequence of <<addr, data>>, pool index i at i+1
    valid_idx,      \* list of pool indices holding valid data
    test_sequence,  \* list of <<op, idx>>, op: 0 - write, 1 - read
    expected,       \* expected data for the read response monitor
    gpc,            \* position of the generator
    dut,            \* the signals of the design under test (dut.<signal>.value)
    phase,          \* point of the clock cycle: "rise", "rw" (after the
                    \* design's update at the edge) or "fall"
    woken,          \* tasks whose trigger fired and that have not run yet
    pc,             \* the await each task is suspended at
    opi,            \* position in test_sequence of the operation being issued
    waits,          \* clock edges at which the current (or, after the last
                    \* operation, the last) call found ready low, up to MaxWait
    mi,             \* "i" of bus_read_response: expectations consumed
    rdata,          \* value returned by the last single-shot monitor
    accepted,       \* requests the target accepted, in order
    pend,           \* reads accepted by the target and not yet answered
    rsp_cnt,        \* number of responses the target sent
    spurious,       \* responses sent with no read pending
    returned,       \* the calls of the bus functions that returned, in order
    compared,       \* the comparisons of the monitor, in order
    verdict         \* "running", "pass" or "fail"

genvars == <<stimulus, gen_call, cl, clk_freq, variant, num_op, num_seq, addr_data, valid_idx, test_sequence,
             expected, gpc>>

runvars == <<dut, phase, woken, pc, opi, waits, mi, rdata, accepted, pend,
             rsp_cnt, spurious, returned, compared, verdict>>

vars == <<genvars, runvars>>

\* ------------------------------------------------------------------------
\* Helpers
\* ------------------------------------------------------------------------
\* Python's "x in list"
InList(x, s) == \E k \in 1..Len(s) : s[k] = x

\* set of the elements of a list
Elems(s) == {s[k] : k \in 1..Len(s)}

\* pool lookup addr_data[idx] (Python indices start at 0)
PoolAt(pool, idx) == pool[idx + 1]

\* ------------------------------------------------------------------------
\* Stimulus generation
\* ------------------------------------------------------------------------
\* (mutant of AddValid) the index is appended without the membership test
AddValidAlways(valid, idx) == Append(valid, idx)

\* "if not idx in valid_idx: valid_idx.append(idx)"
AddValid(valid, idx) == IF InList(idx, valid) THEN valid ELSE Append(valid, idx)

\* number of iterations of "generate the rest of sequence":
\* range(num_op) in test_random / test_basic, range(num_op-1) in cocotb_random
RestCount(v, n) ==
    IF v = "cocotb_random" THEN (IF n >= 1 THEN n - 1 ELSE 0) ELSE n

\* (mutant of BuildExpected) each entry is put at the front of the list
RECURSIVE BuildExpectedFront(_, _)
BuildExpectedFront(seq, pool) ==
    IF seq = << >> THEN << >>
    ELSE LET op  == Head(seq)[1]
             idx == Head(seq)[2]
             rest == BuildExpectedFront(Tail(seq), pool)
         IN  IF op = 1 THEN rest \o <<PoolAt(pool, idx)[2]>> ELSE rest

\* "create expected data for read response monitor": one entry per read of
\* the sequence, in order, the data of the pool entry the read selects
RECURSIVE BuildExpected(_, _)
BuildExpected(seq, pool) ==
    IF seq = << >> THEN << >>
    ELSE LET op  == Head(seq)[1]
             idx == Head(seq)[2]
             rest == BuildExpected(Tail(seq), pool)
         IN  IF op = 1 THEN <<PoolAt(pool, idx)[2]>> \o rest ELSE rest

\* (mutant of ReadChoices) a read selects any index of the pool
ReadChoicesAny(valid) == 0..(num_seq - 1)

\* "random.choice(valid_idx)": the indices a read can select
ReadChoices(valid) == Elems(valid)

\* "random.randint(0, num_seq-1)": the indices a write can select
WriteChoices(n) == 0..(n - 1)

\* generate random address and data
GenPool ==
    /\ gpc = "pool"
    /\ \E pool \in [1..num_seq -> AddrRange \X DataRange] :
          addr_data' = pool
    /\ gpc' = "first"
    /\ UNCHANGED <<stimulus, gen_call, cl, clk_freq, variant, num_op, num_seq, valid_idx, test_sequence, expected, runvars>>

\* the first sequence must be a write; random.randint(0, num_seq-1) raises
\* ValueError on the empty range of num_seq = 0
GenFirst ==
    /\ gpc = "first"
    /\ IF num_seq = 0
       THEN /\ gpc' = "error"
            /\ UNCHANGED <<valid_idx, test_sequence>>
       ELSE /\ \E idx \in WriteChoices(num_seq) :
                 /\ valid_idx' = Append(valid_idx, idx)
                 /\ test_sequence' = Append(test_sequence, <<0, idx>>)
            /\ gpc' = "rest"
    /\ UNCHANGED <<stimulus, gen_call, cl, clk_freq, variant, num_op, num_seq, addr_data, expected, runvars>>

\* one iteration of "generate the rest of sequence"
GenRest ==
    /\ gpc = "rest"
    /\ Len(test_sequence) - 1 < RestCount(variant, num_op)
    /\ \E op \in {0, 1} :
         IF op = 1
         THEN \* a read can only select from valid_idx (random.choice)
              \E idx \in ReadChoices(valid_idx) :
                 /\ test_sequence' = Append(test_sequence, <<1, idx>>)
                 /\ UNCHANGED valid_idx
         ELSE \* a write selects any index and adds it to valid_idx
              \E idx \in WriteChoices(num_seq) :
                 /\ valid_idx' = AddValid(valid_idx, idx)
                 /\ test_sequence' = Append(test_sequence, <<0, idx>>)
    /\ UNCHANGED <<stimulus, gen_call, cl, clk_freq, variant, num_op, num_seq, addr_data, expected, gpc, runvars>>

\* end of the generation: the expected list of the queued variants, and the
\* construction of the progress Reporter, which asserts total > 0
GenDone ==
    /\ gpc = "rest"
    /\ Len(test_sequence) - 1 = RestCount(variant, num_op)
    /\ expected' = IF variant = "cocotb_random" THEN expected
                   ELSE BuildExpected(test_sequence, addr_data)
    /\ gpc' = IF variant # "test_basic" /\ num_op = 0 THEN "error" ELSE "ready"
    /\ UNCHANGED <<stimulus, gen_call, cl, clk_freq, variant, num_op, num_seq, addr_data, valid_idx, test_sequence,
                   runvars>>

\* ------------------------------------------------------------------------
\* Signals and the target
\* ------------------------------------------------------------------------
\* the signals before the test drives the configuration inputs: the bus at
\* 0, the four cfg_* inputs not driven (-1)
DutOff ==
    [bus_req_valid |-> 0, bus_req_read |-> 0, bus_req_write |-> 0,
     bus_req_addr |-> 0, bus_req_burst |-> 0, bus_req_burst_len |-> 0,
     bus_req_wdata |-> 0, bus_req_byteenable |-> 0,
     bus_req_ready |-> 0, bus_rsp_valid |-> 0, bus_rsp_rdata |-> 0,
     cfg_burst_length |-> -1, cfg_burst_type |-> -1,
     cfg_cas_latency |-> -1, cfg_burst_mode |-> -1]

\* the defaults of the parameters raw and caw of addr_gen: the widths of the
\* row address and of the column address
DefaultRaw == 12
DefaultCaw == 10
\* the default of the parameter num of the manual precharge tests
PrechargeNum == 4
\* "addr_gen(i-1, 0x100 * i, 0x10 * i)", "data = 0x1111 * i"
RowStep == 256
ColStep == 16
DataStep == 4369
\* the largest bank, and the small widths every row and column is tried for
MaxBank == 3
SmallRaw == 3
SmallCaw == 2

\* "a << n" of python integers, which have no width
Shl(a, n) == a * 2^n

\* "a | b" of python integers that are not negative, bit by bit
RECURSIVE BitOr(_, _)
BitOr(a, b) ==
    IF a = 0 THEN b
    ELSE IF b = 0 THEN a
    ELSE (IF a % 2 = 1 \/ b % 2 = 1 THEN 1 ELSE 0)
            + 2 * BitOr(a \div 2, b \div 2)

\* addr_gen with the row shifted by the row width
AddrGenRowShift(bank, row, col, raw, caw) ==
    BitOr(BitOr(Shl(bank, raw + caw), Shl(row, raw)), col)

\* addr_gen: "((bank << (raw + caw)) | (row << caw) | col)"
AddrGen(bank, row, col, raw, caw) ==
    BitOr(BitOr(Shl(bank, raw + caw), Shl(row, caw)), col)

\* no call of addr_gen made
NoCall == [bank |-> 0, row |-> 0, col |-> 0, raw |-> DefaultRaw,
           caw |-> DefaultCaw, addr |-> -1]

\* the arguments addr_gen is called with: every row and column of the small
\* widths and one beyond, and with the default widths the rows and columns
\* at the ends of the fields, one beyond, and those of the tests
GenWidths == {<<SmallRaw, SmallCaw>>, <<DefaultRaw, DefaultCaw>>}

FieldSamples(w, step) ==
    IF w < DefaultCaw
    THEN 0..(2^w)
    ELSE {0, 1, 2^w - 1, 2^w} \cup {step * i : i \in 1..PrechargeNum}

GenCalls ==
    UNION {{[bank |-> b, row |-> r, col |-> c, raw |-> w[1], caw |-> w[2],
             addr |-> -1] :
               b \in 0..MaxBank,
               r \in FieldSamples(w[1], RowStep),
               c \in FieldSamples(w[2], ColStep)} : w \in GenWidths}

\* the default of the parameter cas of load_mode_reg / load_config
DefaultCas == 2
\* the default of the environment variable CLK_FREQ, in MHz
DefaultClkFreq == 50
\* the clock frequencies a run is made with
ClkFreqs == {DefaultClkFreq, 2 * DefaultClkFreq}
\* the CAS latencies the parameterised tests pass
CasValues == {DefaultCas, DefaultCas + 1}

\* load_mode_reg (tests/env.py): the four arguments go to the four inputs
LoadModeReg(d, burst_len, burst_type, cas, write_burst_mode) ==
    [d EXCEPT !.cfg_burst_length = burst_len, !.cfg_burst_type = burst_type,
              !.cfg_cas_latency = cas, !.cfg_burst_mode = write_burst_mode]

\* get_clk_period (tb/env.py): round(1000.0 / clk_freq, 1), here in tenths
\* of a nanosecond
GetClkPeriod(freq) == (10000 + freq \div 2) \div freq

\* load_config (tb/env.py): cas is set again from the clock period before
\* it is driven ("if clock_period > 10: cas = 2 else: cas = 3")
LoadConfig(d, burst_len, burst_type, cas, write_burst_mode, freq) ==
    LET cas2 == IF GetClkPeriod(freq) > 100 THEN 2 ELSE 3
    IN  [d EXCEPT !.cfg_burst_length = burst_len, !.cfg_burst_type = burst_type,
                  !.cfg_cas_latency = cas2, !.cfg_burst_mode = write_burst_mode]

\* the signals after bus_init and a load of the configuration with the
\* default arguments: the request channel at 0, CAS latency 2
DutReset == LoadModeReg(DutOff, 0, 0, DefaultCas, 0)

\* the variants that drive the bus with tb/bus.py (bus_req_valid); the others
\* use tests/bus.py (bus_req_read / bus_req_write strobes)
IsTb ==
    variant \in {"cocotb_random", "tb_sequential", "test_read", "simple_read",
                 "write2read"}

\* a request is on the bus
ReqStrobe(d) ==
    IF IsTb THEN d.bus_req_valid = 1
    ELSE d.bus_req_read = 1 \/ d.bus_req_write = 1

\* the request on the bus is a read
ReqIsRead(d) ==
    IF IsTb THEN d.bus_req_write = 0 ELSE d.bus_req_read = 1

\* the pcs at which the test is inside a bus call with its request driven
InCallPcs == {"b_rise", "b_fall", "s_rise", "s_rw", "s_rise2", "s_rw2"}

\* what the target latches when it accepts the request on the bus; call is
\* the operation of the test whose call drives the request, 0 when none
Latched(d, call) ==
    [valid |-> d.bus_req_valid, read |-> d.bus_req_read,
     write |-> d.bus_req_write, addr |-> d.bus_req_addr,
     wdata |-> d.bus_req_wdata, byteenable |-> d.bus_req_byteenable,
     isread |-> ReqIsRead(d), call |-> call]

\* requests the target may accept in one run
MaxAccepts == Len(test_sequence) + MaxExtra

\* the operation at position k of the sequence
OpKind(k) == test_sequence[k][1]
OpAddr(k) == PoolAt(addr_data, test_sequence[k][2])[1]
OpData(k) == PoolAt(addr_data, test_sequence[k][2])[2]

Min(a, b) == IF a < b THEN a ELSE b

\* the await a pc stands for
Awaits(p) ==
    CASE p \in {"b_rise"} -> "rise"
      [] p \in {"s_rise", "s_rise2", "r1_rise"} -> "rise_rw"
      [] p \in {"s_rw0", "s_rw", "s_rw2", "r1_rw"} -> "rw"
      [] p \in {"b_fall", "m_fall", "m1_fall"} -> "fall"
      [] p \in {"m_rvalid", "m1_rvalid"} -> "rvalid"
      [] p = "t_timer" -> "timer"
      [] p \in {"t_join", "t_join_rd"} -> "join"
      [] OTHER -> "none"

\* tb/bus.py awaits "RisingEdge(dut.clk)" and then "ReadWrite()" with nothing
\* in between: a task at such a pair is moved to its ReadWrite by the edge
AfterEdge(p) ==
    CASE p = "s_rise" -> "s_rw"
      [] p = "s_rise2" -> "s_rw2"
      [] p = "r1_rise" -> "r1_rw"
      [] OTHER -> p

\* rising clock edge: the target samples the request channel, and accepts the
\* request when ready is high
ClkRise ==
    /\ verdict = "running"
    /\ phase = "fall"
    /\ woken = {}
    /\ phase' = "rise"
    /\ LET acc == ReqStrobe(dut) /\ dut.bus_req_ready = 1
           call == IF pc["test"] \in InCallPcs THEN opi ELSE 0
       IN  /\ accepted' = IF acc THEN Append(accepted, Latched(dut, call))
                          ELSE accepted
           /\ pend' = IF acc /\ ReqIsRead(dut) THEN pend + 1 ELSE pend
    /\ woken' = {t \in Tasks : Awaits(pc[t]) = "rise"}
    /\ pc' = [t \in Tasks |-> AfterEdge(pc[t])]
    /\ UNCHANGED <<genvars, dut, opi, waits, mi, rdata, rsp_cnt, spurious,
                   returned, compared, verdict>>

\* the outputs of the target after the edge: ready for the coming cycle, and
\* possibly a response (to the oldest pending read, or to none)
DutUpdate ==
    /\ verdict = "running"
    /\ phase = "rise"
    /\ woken = {}
    /\ phase' = "rw"
    /\ \E rdy \in {0, 1}, rsp \in {"none", "read", "spurious"}, v \in DataRange :
         /\ rdy = 1 => Len(accepted) < MaxAccepts
         /\ rsp = "none" => v = 0
         /\ rsp = "read" => pend > 0
         /\ rsp = "spurious" => pend = 0 /\ spurious < MaxSpurious
         /\ dut' = [dut EXCEPT !.bus_req_ready = rdy,
                               !.bus_rsp_valid = IF rsp = "none" THEN 0 ELSE 1,
                               !.bus_rsp_rdata = v]
         /\ pend' = IF rsp = "read" THEN pend - 1 ELSE pend
         /\ spurious' = IF rsp = "spurious" THEN spurious + 1 ELSE spurious
         /\ rsp_cnt' = IF rsp = "none" THEN rsp_cnt ELSE rsp_cnt + 1
         /\ woken' = {t \in Tasks :
                        \/ Awaits(pc[t]) = "rw"
                        \/ /\ Awaits(pc[t]) = "rvalid"
                           /\ dut.bus_rsp_valid = 0
                           /\ rsp # "none"}
    /\ UNCHANGED <<genvars, pc, opi, waits, mi, rdata, accepted, returned,
                   compared, verdict>>

\* falling clock edge; a Timer the test waits for may expire here
ClkFall ==
    /\ verdict = "running"
    /\ phase = "rw"
    /\ woken = {}
    /\ phase' = "fall"
    /\ \E expire \in BOOLEAN :
         woken' = {t \in Tasks :
                     \/ Awaits(pc[t]) = "fall"
                     \/ Awaits(pc[t]) = "timer" /\ expire}
    /\ UNCHANGED <<genvars, dut, pc, opi, waits, mi, rdata, accepted, pend,
                   rsp_cnt, spurious, returned, compared, verdict>>

\* ------------------------------------------------------------------------
\* tests/bus.py: the strobe based bus functions
\* ------------------------------------------------------------------------
\* (mutant of BusWriteDrive) address and data swapped
BusWriteDriveSwapped(d, addr, data, byte_en) ==
    [d EXCEPT !.bus_req_write = 1, !.bus_req_addr = data,
              !.bus_req_wdata = addr, !.bus_req_byteenable = byte_en]

\* bus_write, address phase
BusWriteDrive(d, addr, data, byte_en) ==
    [d EXCEPT !.bus_req_write = 1, !.bus_req_addr = addr,
              !.bus_req_wdata = data, !.bus_req_byteenable = byte_en]

\* (mutant of BusWriteIdle) the idle values also clear the CAS latency input
BusWriteIdleAll(d) ==
    [d EXCEPT !.bus_req_write = 0, !.bus_req_addr = 0,
              !.bus_req_wdata = 0, !.bus_req_byteenable = 0,
              !.cfg_cas_latency = 0]

\* bus_write, idle values after the address phase
BusWriteIdle(d) ==
    [d EXCEPT !.bus_req_write = 0, !.bus_req_addr = 0,
              !.bus_req_wdata = 0, !.bus_req_byteenable = 0]

\* (mutant of BusReadDrive) the address is not driven
BusReadDriveNoAddr(d, addr, byte_en) ==
    [d EXCEPT !.bus_req_read = 1, !.bus_req_byteenable = byte_en]

\* bus_read, address phase
BusReadDrive(d, addr, byte_en) ==
    [d EXCEPT !.bus_req_read = 1, !.bus_req_addr = addr,
              !.bus_req_byteenable = byte_en]

\* (mutant of BusReadIdle) the read strobe is left asserted
BusReadIdleStrobeKept(d) ==
    [d EXCEPT !.bus_req_addr = 0, !.bus_req_byteenable = 0]

\* bus_read, idle values after the address phase
BusReadIdle(d) ==
    [d EXCEPT !.bus_req_read = 0, !.bus_req_addr = 0,
              !.bus_req_byteenable = 0]

\* (mutant of ReadyHigh) the request is taken as accepted without a look at
\* ready
ReadyAssumed(d) == TRUE

\* (mutant of ReadyHigh) the wait loop never finds ready high
ReadyNever(d) == FALSE

\* "while not dut.bus_req_ready.value": ready as the task reads it
ReadyHigh(d) == d.bus_req_ready = 1

\* what is recorded of a call when it returns: the operation the call issued
\* and the request channel as the call leaves it
Returned(k, d) ==
    [op |-> k, valid |-> d.bus_req_valid, read |-> d.bus_req_read,
     write |-> d.bus_req_write, addr |-> d.bus_req_addr,
     wdata |-> d.bus_req_wdata, byteenable |-> d.bus_req_byteenable]

\* the test loop from operation k on, with the signals at d: the loop calls
\* bus_read / bus_write, which drives the request and awaits RisingEdge; after
\* the last operation the test awaits Timer(1 us)
TestsIssue(d, k) ==
    /\ opi' = k
    /\ IF k > Len(test_sequence)
       THEN /\ dut' = d
            /\ pc' = [pc EXCEPT !["test"] = "t_timer"]
            /\ UNCHANGED waits
       ELSE /\ waits' = 0
            /\ dut' = IF OpKind(k) = 1
                      THEN BusReadDrive(d, OpAddr(k), 3)
                      ELSE BusWriteDrive(d, OpAddr(k), OpData(k), 3)
            /\ pc' = [pc EXCEPT !["test"] = "b_rise"]

\* the test after "await Timer(101, units='us')": the first operation
TestsStart ==
    /\ pc["test"] = "t_start"
    /\ ~IsTb
    /\ "test" \in woken
    /\ woken' = woken \ {"test"}
    /\ TestsIssue(dut, 1)
    /\ UNCHANGED <<genvars, phase, mi, rdata, accepted, pend, rsp_cnt, spurious,
                   returned, compared, verdict>>

\* bus_write / bus_read after "await RisingEdge(dut.clk)": ready is looked at
\* on the edge; low: await the next edge, high: await FallingEdge
BusWaitReady ==
    /\ pc["test"] = "b_rise"
    /\ "test" \in woken
    /\ woken' = woken \ {"test"}
    /\ IF ReadyHigh(dut)
       THEN /\ pc' = [pc EXCEPT !["test"] = "b_fall"]
            /\ UNCHANGED waits
       ELSE /\ pc' = [pc EXCEPT !["test"] = "b_rise"]
            /\ waits' = Min(waits + 1, MaxWait)
    /\ UNCHANGED <<genvars, dut, phase, opi, mi, rdata, accepted, pend, rsp_cnt,
                   spurious, returned, compared, verdict>>

\* bus_write / bus_read after "await FallingEdge(dut.clk)": the idle values
\* are driven and the call returns; the test goes on with its loop
BusIdle ==
    /\ pc["test"] = "b_fall"
    /\ "test" \in woken
    /\ woken' = woken \ {"test"}
    /\ LET d == IF OpKind(opi) = 1 THEN BusReadIdle(dut) ELSE BusWriteIdle(dut)
       IN  /\ returned' = Append(returned, Returned(opi, d))
           /\ TestsIssue(d, opi + 1)
    /\ UNCHANGED <<genvars, phase, mi, rdata, accepted, pend, rsp_cnt, spurious,
                   compared, verdict>>

\* (mutant of TestTimer) the test ends after the Timer without awaiting the
\* monitor
TestTimerNoJoin ==
    /\ pc["test"] = "t_timer"
    /\ "test" \in woken
    /\ woken' = woken \ {"test"}
    /\ pc' = [pc EXCEPT !["test"] = "t_done"]
    /\ verdict' = "pass"
    /\ UNCHANGED <<genvars, dut, phase, opi, waits, mi, rdata, accepted, pend,
                   rsp_cnt, spurious, returned, compared>>

\* the test after "await Timer(1, units='us')": "await read_monitor", which
\* returns at once when the monitor has finished; in random_read_write the
\* awaited name is bound by the first read only
TestTimer ==
    /\ pc["test"] = "t_timer"
    /\ variant \notin NoJoinVariants
    /\ "test" \in woken
    /\ woken' = woken \ {"test"}
    /\ IF pc["mon"] = "m_done"
       THEN /\ pc' = [pc EXCEPT !["test"] = "t_done"]
            /\ verdict' = "pass"
       ELSE IF pc["mon"] = "none"
       THEN \* no task was ever started: the name read_resp is unbound
            /\ pc' = [pc EXCEPT !["test"] = "t_error"]
            /\ verdict' = "fail"
       ELSE /\ pc' = [pc EXCEPT !["test"] = "t_join"]
            /\ UNCHANGED verdict
    /\ UNCHANGED <<genvars, dut, phase, opi, waits, mi, rdata, accepted, pend,
                   rsp_cnt, spurious, returned, compared>>

\* the test resumed by the end of the monitor it awaits: the test ends
TestJoin ==
    /\ pc["test"] = "t_join"
    /\ "test" \in woken
    /\ woken' = woken \ {"test"}
    /\ pc' = [pc EXCEPT !["test"] = "t_done"]
    /\ verdict' = "pass"
    /\ UNCHANGED <<genvars, dut, phase, opi, waits, mi, rdata, accepted, pend,
                   rsp_cnt, spurious, returned, compared>>

\* ------------------------------------------------------------------------
\* tests/bus.py: bus_read_response
\* ------------------------------------------------------------------------
\* the first await of bus_read_response(dut, expected): "if expected:" takes
\* the loop for a non-empty list and the single response for None or []
MonEntry(exp) == IF exp # << >> THEN "m_rvalid" ELSE "m1_rvalid"

\* "assert data == exp_data"
DataMatches(data, exp_data) == data = exp_data

\* what is recorded of a comparison: the data read, the expectation it is
\* compared with, and which response of the target (first, second, ...) was
\* on the bus
Compared(data, exp_data, n) == [data |-> data, exp |-> exp_data, rsp |-> n]

\* "for exp_data in expected": the entry the loop is at after i iterations
ExpAt(exp, i) == exp[i + 1]

\* (mutant of LastEntry) the loop goes round once more after the last entry
LastEntryOffByOne(exp, i) == i + 1 = Len(exp) + 1

\* "for exp_data in expected" is exhausted by the iteration that follows i
\* completed ones
LastEntry(exp, i) == i + 1 = Len(exp)

\* the monitor after "await RisingEdge(dut.bus_rsp_valid)": await FallingEdge
MonRvalid ==
    /\ pc["mon"] \in {"m_rvalid", "m1_rvalid"}
    /\ "mon" \in woken
    /\ woken' = woken \ {"mon"}
    /\ pc' = [pc EXCEPT !["mon"] = IF pc["mon"] = "m_rvalid" THEN "m_fall"
                                   ELSE "m1_fall"]
    /\ UNCHANGED <<genvars, dut, phase, opi, waits, mi, rdata, accepted, pend,
                   rsp_cnt, spurious, returned, compared, verdict>>

\* (mutant of MonCapture) a mismatch is recorded and the loop goes on
MonCaptureLenient ==
    /\ pc["mon"] = "m_fall"
    /\ "mon" \in woken
    /\ LET data == dut.bus_rsp_rdata
           exp_data == ExpAt(expected, mi)
       IN  /\ compared' = Append(compared, Compared(data, exp_data, rsp_cnt))
           /\ IF DataMatches(data, exp_data)
              THEN /\ mi' = mi + 1
                   /\ UNCHANGED verdict
                   /\ IF LastEntry(expected, mi)
                      THEN /\ pc' = [pc EXCEPT !["mon"] = "m_done"]
                           /\ woken' = (woken \ {"mon"}) \cup
                                 (IF Awaits(pc["test"]) = "join" THEN {"test"}
                                  ELSE {})
                      ELSE /\ pc' = [pc EXCEPT !["mon"] = "m_rvalid"]
                           /\ woken' = woken \ {"mon"}
              ELSE /\ mi' = mi + 1
                   /\ UNCHANGED verdict
                   /\ IF LastEntry(expected, mi)
                      THEN /\ pc' = [pc EXCEPT !["mon"] = "m_done"]
                           /\ woken' = (woken \ {"mon"}) \cup
                                 (IF Awaits(pc["test"]) = "join" THEN {"test"}
                                  ELSE {})
                      ELSE /\ pc' = [pc EXCEPT !["mon"] = "m_rvalid"]
                           /\ woken' = woken \ {"mon"}
    /\ UNCHANGED <<genvars, dut, phase, opi, waits, rdata, accepted, pend,
                   rsp_cnt, spurious, returned>>

\* (mutant of MonCapture) the list is a queue the monitor pops: the entry
\* compared is taken off the front of expected
MonCapturePop ==
    /\ pc["mon"] = "m_fall"
    /\ "mon" \in woken
    /\ LET data == dut.bus_rsp_rdata
           exp_data == Head(expected)
       IN  /\ compared' = Append(compared, Compared(data, exp_data, rsp_cnt))
           /\ expected' = Tail(expected)
           /\ IF DataMatches(data, exp_data)
              THEN /\ mi' = mi + 1
                   /\ UNCHANGED verdict
                   /\ IF Len(expected) = 1
                      THEN /\ pc' = [pc EXCEPT !["mon"] = "m_done"]
                           /\ woken' = (woken \ {"mon"}) \cup
                                 (IF Awaits(pc["test"]) = "join" THEN {"test"}
                                  ELSE {})
                      ELSE /\ pc' = [pc EXCEPT !["mon"] = "m_rvalid"]
                           /\ woken' = woken \ {"mon"}
              ELSE /\ pc' = [pc EXCEPT !["mon"] = "m_failed",
                                       !["test"] = "t_killed"]
                   /\ woken' = {}
                   /\ verdict' = "fail"
                   /\ UNCHANGED mi
    /\ UNCHANGED <<stimulus, gen_call, cl, clk_freq, variant, num_op, num_seq, addr_data, valid_idx, test_sequence,
                   gpc, dut, phase, opi, waits, rdata, accepted, pend,
                   rsp_cnt, spurious, returned>>

\* the monitor loop after "await FallingEdge(dut.clk)": the data is read and
\* compared. A match goes to the next expectation, or returns after the last
\* one (which resumes a test that awaits the monitor). A mismatch raises
\* AssertionError in the monitor task, which ends the test as failed.
MonCapture ==
    /\ pc["mon"] = "m_fall"
    /\ "mon" \in woken
    /\ LET data == dut.bus_rsp_rdata
           exp_data == ExpAt(expected, mi)
       IN  /\ compared' = Append(compared, Compared(data, exp_data, rsp_cnt))
           /\ IF DataMatches(data, exp_data)
              THEN /\ mi' = mi + 1
                   /\ UNCHANGED verdict
                   /\ IF LastEntry(expected, mi)
                      THEN /\ pc' = [pc EXCEPT !["mon"] = "m_done"]
                           /\ woken' = (woken \ {"mon"}) \cup
                                 (IF Awaits(pc["test"]) = "join" THEN {"test"}
                                  ELSE {})
                      ELSE /\ pc' = [pc EXCEPT !["mon"] = "m_rvalid"]
                           /\ woken' = woken \ {"mon"}
              ELSE /\ pc' = [pc EXCEPT !["mon"] = "m_failed",
                                       !["test"] = "t_killed"]
                   /\ woken' = {}
                   /\ verdict' = "fail"
                   /\ UNCHANGED mi
    /\ UNCHANGED <<genvars, dut, phase, opi, waits, rdata, accepted, pend,
                   rsp_cnt, spurious, returned>>

\* bus_read_response without a list after "await FallingEdge(dut.clk)": the
\* data is returned
MonSingle ==
    /\ pc["mon"] = "m1_fall"
    /\ "mon" \in woken
    /\ rdata' = dut.bus_rsp_rdata
    /\ pc' = [pc EXCEPT !["mon"] = "m_done"]
    /\ woken' = (woken \ {"mon"}) \cup
                   (IF Awaits(pc["test"]) = "join" THEN {"test"} ELSE {})
    /\ UNCHANGED <<genvars, dut, phase, opi, waits, mi, accepted, pend, rsp_cnt,
                   spurious, returned, compared, verdict>>

\* ------------------------------------------------------------------------
\* tb/bus.py: the valid based bus functions
\* ------------------------------------------------------------------------
\* single_write, address phase
SingleWriteDrive(d, addr, data, byte_en) ==
    [d EXCEPT !.bus_req_valid = 1, !.bus_req_write = 1, !.bus_req_addr = addr,
              !.bus_req_wdata = data, !.bus_req_byteenable = byte_en]

\* single_write, idle values after the write request is accepted
SingleWriteIdle(d) ==
    [d EXCEPT !.bus_req_write = 0, !.bus_req_addr = 0,
              !.bus_req_wdata = 0, !.bus_req_byteenable = 0]

\* single_read, address phase
SingleReadDrive(d, addr, byte_en) ==
    [d EXCEPT !.bus_req_valid = 1, !.bus_req_write = 0, !.bus_req_addr = addr,
              !.bus_req_byteenable = byte_en]

\* single_read, idle values after the read request is accepted
SingleReadIdle(d) ==
    [d EXCEPT !.bus_req_valid = 0, !.bus_req_addr = 0,
              !.bus_req_byteenable = 0]

\* the test loop of the tb variants from operation k on, with the signals at
\* d, the pcs at p and the woken tasks at w. A write calls single_write, which
\* first awaits ReadWrite (of the current time step: no clock edge passes). A
\* read starts a single_read_resp task and calls single_read, which drives the
\* request and awaits RisingEdge; the new task runs up to its own first await
\* of RisingEdge (the single read tests started their one single_read_resp
\* task before the write, write2read calls single_read_resp after the read).
\* After the last operation the test awaits a Timer.
TbIssue(d, k, p, w) ==
    /\ opi' = k
    /\ waits' = IF k > Len(test_sequence) THEN waits ELSE 0
    /\ IF k > Len(test_sequence)
       THEN /\ dut' = d
            /\ pc' = [p EXCEPT !["test"] = "t_timer"]
            /\ woken' = w
       ELSE IF OpKind(k) = 0
       THEN /\ dut' = d
            /\ pc' = [p EXCEPT !["test"] = "s_rw0"]
            /\ woken' = IF phase = "rise" THEN w ELSE w \cup {"test"}
       ELSE /\ dut' = SingleReadDrive(d, OpAddr(k), 3)
            /\ pc' = IF variant \in BasicVariants \cup PipeVariants
                     THEN [p EXCEPT !["test"] = "s_rise"]
                     ELSE [p EXCEPT !["test"] = "s_rise", !["mon"] = "r1_rise"]
            /\ woken' = w

\* "rdata = await read_monitor; assert rdata == data": the test with the
\* value v the monitor returned for the read at position opi; test_read
\* awaits the monitor and drops the value
TbCheckRead(d, v, p, w) ==
    IF variant = "test_read" \/ DataMatches(v, OpData(opi))
    THEN /\ TbIssue(d, opi + 1, p, w)
         /\ UNCHANGED verdict
    ELSE /\ dut' = d
         /\ pc' = [p EXCEPT !["test"] = "t_failed"]
         /\ woken' = {}
         /\ verdict' = "fail"
         /\ UNCHANGED <<opi, waits>>

\* the test after "await Timer(101, units='us')": the first operation
TbStart ==
    /\ pc["test"] = "t_start"
    /\ IsTb
    /\ "test" \in woken
    /\ TbIssue(dut, 1, pc, woken \ {"test"})
    /\ UNCHANGED <<genvars, phase, mi, rdata, accepted, pend, rsp_cnt, spurious,
                   returned, compared, verdict>>

\* single_write after its first "await ReadWrite()": the address phase
SingleWriteStart ==
    /\ pc["test"] = "s_rw0"
    /\ "test" \in woken
    /\ woken' = woken \ {"test"}
    /\ dut' = SingleWriteDrive(dut, OpAddr(opi), OpData(opi), 3)
    /\ pc' = [pc EXCEPT !["test"] = "s_rise"]
    /\ UNCHANGED <<genvars, phase, opi, waits, mi, rdata, accepted, pend, rsp_cnt,
                   spurious, returned, compared, verdict>>

\* single_write / single_read in "Wait for the ready": ready is looked at
\* after the edge; low: await the next edge, high: leave the loop and await
\* one more edge
SingleWaitReady ==
    /\ pc["test"] = "s_rw"
    /\ "test" \in woken
    /\ woken' = woken \ {"test"}
    /\ IF ReadyHigh(dut)
       THEN /\ pc' = [pc EXCEPT !["test"] = "s_rise2"]
            /\ UNCHANGED waits
       ELSE /\ pc' = [pc EXCEPT !["test"] = "s_rise"]
            /\ waits' = Min(waits + 1, MaxWait)
    /\ UNCHANGED <<genvars, dut, phase, opi, mi, rdata, accepted, pend, rsp_cnt,
                   spurious, returned, compared, verdict>>

\* single_write / single_read after the edge that follows ready: the idle
\* values are driven and the call returns. After a write the test goes on
\* with its loop; after a read it awaits the monitor, which may have returned
\* (write2read: it calls single_read_resp, which awaits its first edge)
SingleIdle ==
    /\ pc["test"] = "s_rw2"
    /\ "test" \in woken
    /\ LET d == IF OpKind(opi) = 1 THEN SingleReadIdle(dut)
                ELSE SingleWriteIdle(dut)
           w == woken \ {"test"}
       IN  /\ returned' = Append(returned, Returned(opi, d))
           /\ IF OpKind(opi) = 0
              THEN /\ TbIssue(d, opi + 1, pc, w)
                   /\ UNCHANGED verdict
              ELSE IF variant \in PipeVariants
              THEN \* "rdata = await single_read_resp(dut)" starts here
                   /\ dut' = d
                   /\ pc' = [pc EXCEPT !["test"] = "t_join_rd",
                                       !["mon"] = "r1_rise"]
                   /\ woken' = w
                   /\ UNCHANGED <<opi, waits, verdict>>
              ELSE IF pc["mon"] = "m_done"
              THEN TbCheckRead(d, rdata, pc, w)
              ELSE /\ dut' = d
                   /\ pc' = [pc EXCEPT !["test"] = "t_join_rd"]
                   /\ woken' = w
                   /\ UNCHANGED <<opi, waits, verdict>>
    /\ UNCHANGED <<genvars, phase, mi, rdata, accepted, pend, rsp_cnt, spurious,
                   compared>>

\* the test resumed by the return of the monitor of its read
TbJoinRead ==
    /\ pc["test"] = "t_join_rd"
    /\ "test" \in woken
    /\ TbCheckRead(dut, rdata, pc, woken \ {"test"})
    /\ UNCHANGED <<genvars, phase, mi, rdata, accepted, pend, rsp_cnt, spurious,
                   returned, compared>>

\* ------------------------------------------------------------------------
\* tb/bus.py: single_read_resp
\* ------------------------------------------------------------------------
\* single_read_resp in "Wait for the rvalid": low: await the next edge, high:
\* the data is returned (which resumes a test that awaits the task)
RespWait ==
    /\ pc["mon"] = "r1_rw"
    /\ "mon" \in woken
    /\ IF dut.bus_rsp_valid = 1
       THEN /\ rdata' = dut.bus_rsp_rdata
            /\ pc' = [pc EXCEPT !["mon"] = "m_done"]
            /\ woken' = (woken \ {"mon"}) \cup
                 (IF Awaits(pc["test"]) = "join" THEN {"test"} ELSE {})
       ELSE /\ pc' = [pc EXCEPT !["mon"] = "r1_rise"]
            /\ woken' = woken \ {"mon"}
            /\ UNCHANGED rdata
    /\ UNCHANGED <<genvars, dut, phase, opi, waits, mi, accepted, pend, rsp_cnt,
                   spurious, returned, compared, verdict>>

\* ------------------------------------------------------------------------
\* The sequential tests
\* ------------------------------------------------------------------------
\* the operations the two loops of test_sequential_read_write issue: num
\* writes, then num reads, of locations 0 .. num-1
SeqOps(num) ==
    [k \in 1..(2 * num) |-> IF k <= num THEN <<0, k - 1>> ELSE <<1, k - num - 1>>]

\* addr = start_addr + i * 2, with the data drawn for location i
SeqPool(start_addr, data) ==
    [k \in 1..Len(data) |-> <<start_addr + (k - 1) * 2, data[k]>>]

\* the run variables before the cocotb part of a test starts
RunIdle ==
    /\ cl = DefaultCas
    /\ clk_freq = DefaultClkFreq
    /\ stimulus = << >>
    /\ gen_call = NoCall
    /\ dut = DutReset
    /\ phase = "off"
    /\ woken = {}
    /\ pc = [t \in Tasks |-> "none"]
    /\ opi = 0
    /\ waits = 0
    /\ mi = 0
    /\ rdata = -1
    /\ accepted = << >>
    /\ pend = 0
    /\ rsp_cnt = 0
    /\ spurious = 0
    /\ returned = << >>
    /\ compared = << >>
    /\ verdict = "running"

\* a sequential test at the end of its Timer(101 us): the data is drawn, the
\* bus is initialised, the clock runs, and in tests/test_sequential.py the
\* monitor has been started with the data as its expected list
Init ==
    /\ cl = DefaultCas
    /\ clk_freq = DefaultClkFreq
    /\ stimulus = << >>
    /\ gen_call = NoCall
    /\ variant \in SeqVariants
    /\ \E num \in 1..MaxNum :
         \E data \in [1..num -> DataRange] :
            /\ num_seq = num
            /\ num_op = 2 * num
            /\ addr_data = SeqPool(0, data)
            /\ test_sequence = SeqOps(num)
            /\ expected = data
    /\ valid_idx = << >>
    /\ gpc = "ready"
    /\ dut = DutReset
    /\ phase = "fall"
    /\ woken = {"test"}
    /\ pc = [t \in Tasks |-> IF t = "test" THEN "t_start"
                             ELSE IF IsTb THEN "none" ELSE MonEntry(expected)]
    /\ opi = 0
    /\ waits = 0
    /\ mi = 0
    /\ rdata = -1
    /\ accepted = << >>
    /\ pend = 0
    /\ rsp_cnt = 0
    /\ spurious = 0
    /\ returned = << >>
    /\ compared = << >>
    /\ verdict = "running"

Next ==
    \/ ClkRise \/ DutUpdate \/ ClkFall
    \/ TestsStart \/ BusWaitReady \/ BusIdle \/ TestTimer \/ TestJoin
    \/ MonRvalid \/ MonCapture
    \/ TbStart \/ SingleWriteStart \/ SingleWaitReady
    \/ SingleIdle \/ TbJoinRead \/ RespWait

Spec == Init /\ [][Next]_vars

InitGen ==
    /\ variant \in Variants
    /\ num_op \in 0..MaxNumOp
    /\ num_seq \in 0..MaxNumSeq
    /\ addr_data = << >>
    /\ valid_idx = << >>
    /\ test_sequence = << >>
    /\ expected = << >>
    /\ gpc = "pool"
    /\ RunIdle

NextGen == GenPool \/ GenFirst \/ GenRest \/ GenDone

SpecGen == InitGen /\ [][NextGen]_vars

\* test_auto_refresh (test_basic.py) after "await Timer(2, units='us')", and
\* write2read after "await Timer(1, units='us')": the test ends; it has no
\* monitor task to await
RefreshEnd ==
    /\ pc["test"] = "t_timer"
    /\ variant \in NoJoinVariants
    /\ "test" \in woken
    /\ woken' = woken \ {"test"}
    /\ pc' = [pc EXCEPT !["test"] = "t_done"]
    /\ verdict' = "pass"
    /\ UNCHANGED <<genvars, dut, phase, opi, waits, mi, rdata, accepted, pend,
                   rsp_cnt, spurious, returned, compared>>

\* "bus_write(dut, i*2, i, 0x3)": location i has address i*2 and data i
RefreshPool(num) == [k \in 1..num |-> <<(k - 1) * 2, k - 1>>]

\* test_auto_refresh at the start of its write loop: num writes then num reads
\* (num is 25 in the code), the bus is initialised, the clock runs, and no
\* monitor task exists
InitRefresh ==
    /\ cl = DefaultCas
    /\ clk_freq = DefaultClkFreq
    /\ stimulus = << >>
    /\ gen_call = NoCall
    /\ variant = "auto_refresh"
    /\ \E num \in 1..MaxNum :
          /\ num_seq = num
          /\ num_op = 2 * num
          /\ addr_data = RefreshPool(num)
          /\ test_sequence = SeqOps(num)
    /\ expected = << >>
    /\ valid_idx = << >>
    /\ gpc = "ready"
    /\ dut = DutReset
    /\ phase = "fall"
    /\ woken = {"test"}
    /\ pc = [t \in Tasks |-> IF t = "test" THEN "t_start" ELSE "none"]
    /\ opi = 0
    /\ waits = 0
    /\ mi = 0
    /\ rdata = -1
    /\ accepted = << >>
    /\ pend = 0
    /\ rsp_cnt = 0
    /\ spurious = 0
    /\ returned = << >>
    /\ compared = << >>
    /\ verdict = "running"

NextRefresh ==
    \/ ClkRise \/ DutUpdate \/ ClkFall
    \/ TestsStart \/ BusWaitReady \/ BusIdle \/ RefreshEnd

\* the runs of test_auto_refresh
SpecRefresh == InitRefresh /\ [][NextRefresh]_vars

\* test_read / simple_read after Timer(101 us) (simple_read: after init): the
\* single_read_resp task is started and waits for its first edge, the test is
\* about to write data to addr and to read addr back
InitBasic ==
    /\ cl = DefaultCas
    /\ clk_freq = DefaultClkFreq
    /\ stimulus = << >>
    /\ gen_call = NoCall
    /\ variant \in BasicVariants
    /\ num_seq = 1
    /\ num_op = 2
    /\ addr_data = << <<MaxAddr, MaxData>> >>
    /\ test_sequence = << <<0, 0>>, <<1, 0>> >>
    /\ expected = << >>
    /\ valid_idx = << >>
    /\ gpc = "ready"
    /\ dut = DutReset
    /\ phase = "fall"
    /\ woken = {"test"}
    /\ pc = [t \in Tasks |-> IF t = "test" THEN "t_start" ELSE "r1_rise"]
    /\ opi = 0
    /\ waits = 0
    /\ mi = 0
    /\ rdata = -1
    /\ accepted = << >>
    /\ pend = 0
    /\ rsp_cnt = 0
    /\ spurious = 0
    /\ returned = << >>
    /\ compared = << >>
    /\ verdict = "running"

NextBasic ==
    \/ ClkRise \/ DutUpdate \/ ClkFall
    \/ TbStart \/ SingleWriteStart \/ SingleWaitReady \/ SingleIdle
    \/ TbJoinRead \/ RespWait \/ TestTimer

\* the runs of the single read tests
SpecBasic == InitBasic /\ [][NextBasic]_vars

\* valid_idx after the generation of the sequence seq
RECURSIVE ValidOf(_)
ValidOf(seq) ==
    IF Len(seq) <= 1 THEN <<seq[1][2]>>
    ELSE LET front == SubSeq(seq, 1, Len(seq) - 1)
             last == seq[Len(seq)]
         IN  IF last[1] = 0 THEN AddValid(ValidOf(front), last[2])
             ELSE ValidOf(front)

\* the sequences the generator can produce with a pool of n pairs in k
\* iterations of "generate the rest of sequence"
RECURSIVE GenSeqs(_, _)
GenSeqs(n, k) ==
    IF k = 0 THEN {<< <<0, idx>> >> : idx \in WriteChoices(n)}
    ELSE LET prev == GenSeqs(n, k - 1)
         IN  {Append(s, <<0, idx>>) : s \in prev, idx \in WriteChoices(n)}
             \cup UNION {{Append(s, <<1, idx>>) : idx \in ReadChoices(ValidOf(s))}
                          : s \in prev}

\* the pools of n pairs of the runs of the random tests: the addresses, or
\* the data words, count down from the largest value to the idle value 0 and
\* wrap around
RunPools(n) ==
    {[i \in 1..n |-> <<(MaxAddr + 1 - i) % (MaxAddr + 1), 0>>],
     [i \in 1..n |-> <<0, (MaxData + 1 - i) % (MaxData + 1)>>]}

\* a random test at the start of its loop over test_sequence: the generation
\* is done (and did not raise), the bus is
\* initialised, the clock runs, and the queued variants have started the
\* monitor with the expected list
InitRand ==
    /\ cl = DefaultCas
    /\ clk_freq = DefaultClkFreq
    /\ stimulus = << >>
    /\ gen_call = NoCall
    /\ variant \in Variants
    /\ num_seq \in 1..MaxRunSeq
    /\ num_op \in 0..MaxNumOp
    /\ variant # "test_basic" => num_op > 0
    /\ addr_data \in RunPools(num_seq)
    /\ test_sequence \in GenSeqs(num_seq, RestCount(variant, num_op))
    /\ valid_idx = ValidOf(test_sequence)
    /\ expected = IF variant = "cocotb_random" THEN << >>
                  ELSE BuildExpected(test_sequence, addr_data)
    /\ gpc = "ready"
    /\ dut = DutReset
    /\ phase = "fall"
    /\ woken = {"test"}
    /\ pc = [t \in Tasks |-> IF t = "test" THEN "t_start"
                             ELSE IF IsTb THEN "none" ELSE MonEntry(expected)]
    /\ opi = 0
    /\ waits = 0
    /\ mi = 0
    /\ rdata = -1
    /\ accepted = << >>
    /\ pend = 0
    /\ rsp_cnt = 0
    /\ spurious = 0
    /\ returned = << >>
    /\ compared = << >>
    /\ verdict = "running"

NextRand == Next \/ MonSingle

\* the runs of the random tests
SpecRandom == InitRand /\ [][NextRand]_vars

\* the generators of tests/test_random.py and tests/sdram/cocotb_random_test.py
\* called with num_op = MaxNumOp + 1 and a pool that is not empty: the
\* shortest calls of the larger sequences, which schedule two writes and two
\* reads (test_random) or two writes and a read (cocotb_random)
InitLong ==
    /\ variant \in {"test_random", "cocotb_random"}
    /\ num_op = MaxNumOp + 1
    /\ num_seq \in 1..MaxNumSeq
    /\ addr_data = << >>
    /\ valid_idx = << >>
    /\ test_sequence = << >>
    /\ expected = << >>
    /\ gpc = "pool"
    /\ RunIdle

SpecLong == InitLong /\ [][NextGen]_vars

\* the generation of the random tests and the runs of the sequential tests
SpecAll == (InitGen \/ Init) /\ [][NextGen \/ Next]_vars

\* the target accepted a read at the rising edge that has just passed: the
\* request and ready as the edge found them (in a run of tb/bus.py no task
\* drives a signal between the edge and the update of the target)
JustAcceptedRead ==
    /\ phase = "rise"
    /\ ReqStrobe(dut)
    /\ ReqIsRead(dut)
    /\ dut.bus_req_ready = 1

\* the update of a target whose response latency is at least one cycle: the
\* response to a read is not sent in the update of the edge that accepted it
DutUpdateLate ==
    /\ DutUpdate
    /\ ~(JustAcceptedRead /\ pend = 1 /\ pend' = 0)

\* write2read at its first single_write: "single_write(addr1, data1)",
\* "single_write(addr0, data0)", "single_read(addr1)" with two addresses
\* (pool index 0: addr0, index 1: addr1) and random data; no single_read_resp
\* is running
InitPipe ==
    /\ cl = DefaultCas
    /\ clk_freq = DefaultClkFreq
    /\ stimulus = << >>
    /\ gen_call = NoCall
    /\ variant \in PipeVariants
    /\ num_seq = 2
    /\ num_op = 3
    /\ \E data0, data1 \in DataRange :
          addr_data = << <<1, data0>>, <<2, data1>> >>
    /\ test_sequence = << <<0, 1>>, <<0, 0>>, <<1, 1>> >>
    /\ expected = << >>
    /\ valid_idx = << >>
    /\ gpc = "ready"
    /\ dut = DutReset
    /\ phase = "fall"
    /\ woken = {"test"}
    /\ pc = [t \in Tasks |-> IF t = "test" THEN "t_start" ELSE "none"]
    /\ opi = 0
    /\ waits = 0
    /\ mi = 0
    /\ rdata = -1
    /\ accepted = << >>
    /\ pend = 0
    /\ rsp_cnt = 0
    /\ spurious = 0
    /\ returned = << >>
    /\ compared = << >>
    /\ verdict = "running"

NextPipe ==
    \/ ClkRise \/ DutUpdateLate \/ ClkFall
    \/ TbStart \/ SingleWriteStart \/ SingleWaitReady \/ SingleIdle
    \/ TbJoinRead \/ RespWait \/ RefreshEnd

\* the runs of write2read with a target of response latency one or more
SpecPipe == InitPipe /\ [][NextPipe]_vars

\* a manual precharge test before its loop, and a call of addr_gen made
InitAddr ==
    /\ stimulus = << >>
    /\ gen_call \in GenCalls
    /\ cl = DefaultCas
    /\ clk_freq = DefaultClkFreq
    /\ variant = "manual_precharge"
    /\ num_seq = 0
    /\ num_op = 0
    /\ addr_data = << >>
    /\ test_sequence = << >>
    /\ expected = << >>
    /\ valid_idx = << >>
    /\ gpc = "ready"
    /\ dut = DutOff
    /\ phase = "off"
    /\ woken = {}
    /\ pc = [t \in Tasks |-> "none"]
    /\ opi = 0
    /\ waits = 0
    /\ mi = 0
    /\ rdata = -1
    /\ accepted = << >>
    /\ pend = 0
    /\ rsp_cnt = 0
    /\ spurious = 0
    /\ returned = << >>
    /\ compared = << >>
    /\ verdict = "running"

\* the call of addr_gen returns its address
AddrGenReturn ==
    /\ gen_call.addr = -1
    /\ gen_call' = [gen_call EXCEPT
                       !.addr = AddrGen(gen_call.bank, gen_call.row,
                                        gen_call.col, gen_call.raw,
                                        gen_call.caw)]
    /\ UNCHANGED <<stimulus, cl, clk_freq, variant, num_op, num_seq,
                   addr_data, valid_idx, test_sequence, expected, gpc,
                   runvars>>

\* one pass of "for i in range(1, num+1)": addr_gen with the default widths,
\* the data, and the pair appended to stimulus
StimulusAppend ==
    /\ variant = "manual_precharge"
    /\ Len(stimulus) < PrechargeNum
    /\ LET i == Len(stimulus) + 1
           addr == AddrGen(i - 1, RowStep * i, ColStep * i, DefaultRaw,
                           DefaultCaw)
       IN stimulus' = Append(stimulus, <<addr, DataStep * i>>)
    /\ UNCHANGED <<gen_call, cl, clk_freq, variant, num_op, num_seq,
                   addr_data, valid_idx, test_sequence, expected, gpc,
                   runvars>>

NextAddr == AddrGenReturn \/ StimulusAppend

\* the calls of addr_gen and the stimulus loop of the manual precharge tests
SpecAddr == InitAddr /\ [][NextAddr]_vars

\* "cl = 3 if (clk_freq >= 100) else 2": the CAS latency the random and the
\* sequential tests compute from the clock frequency
ClFromFreq(freq) == IF freq >= 2 * DefaultClkFreq THEN 3 ELSE 2

\* the tests of the runs that start at the load of the configuration:
\* tests/test_random.py (load_mode_reg) and test_read of
\* tests/sdram_controller/test_basic.py (load_config)
CfgVariants == {"test_random", "test_read"}

\* a test before it drives the configuration: test_read is called with cl
\* of its factory, the random test computes cl from the clock frequency and
\* has generated a sequence of two operations
InitCfg ==
    /\ variant \in CfgVariants
    /\ clk_freq \in ClkFreqs
    /\ stimulus = << >>
    /\ gen_call = NoCall
    /\ cl \in CasValues
    /\ variant = "test_random" => cl = ClFromFreq(clk_freq)
    /\ num_seq = 1
    /\ IF variant = "test_read"
       THEN /\ num_op = 2
            /\ addr_data = << <<MaxAddr, MaxData>> >>
            /\ test_sequence = << <<0, 0>>, <<1, 0>> >>
            /\ expected = << >>
       ELSE /\ num_op = 1
            /\ addr_data \in RunPools(num_seq)
            /\ test_sequence \in GenSeqs(num_seq, RestCount(variant, num_op))
            /\ expected = BuildExpected(test_sequence, addr_data)
    /\ valid_idx = << >>
    /\ gpc = "ready"
    /\ dut = DutOff
    /\ phase = "off"
    /\ woken = {}
    /\ pc = [t \in Tasks |-> IF t = "test" THEN "t_config" ELSE "none"]
    /\ opi = 0
    /\ waits = 0
    /\ mi = 0
    /\ rdata = -1
    /\ accepted = << >>
    /\ pend = 0
    /\ rsp_cnt = 0
    /\ spurious = 0
    /\ returned = << >>
    /\ compared = << >>
    /\ verdict = "running"

\* "load_config(dut, cas=cl)" / "load_mode_reg(dut, cas=cl)", followed by
\* init, the start of the monitor and Timer(101 us), during which the test
\* drives nothing: the clock runs and the test is about to issue its first
\* operation
LoadCfg ==
    /\ pc["test"] = "t_config"
    /\ dut' = IF variant = "test_read"
              THEN LoadConfig(dut, 0, 0, cl, 0, clk_freq)
              ELSE LoadModeReg(dut, 0, 0, cl, 0)
    /\ phase' = "fall"
    /\ woken' = {"test"}
    /\ pc' = [t \in Tasks |-> IF t = "test" THEN "t_start"
                              ELSE IF variant = "test_read" THEN "r1_rise"
                              ELSE MonEntry(expected)]
    /\ UNCHANGED <<genvars, opi, waits, mi, rdata, accepted, pend, rsp_cnt,
                   spurious, returned, compared, verdict>>

NextCfg == LoadCfg \/ NextRand

\* the runs of a test from the load of its configuration on
SpecCfg == InitCfg /\ [][NextCfg]_vars

\* the runs of SpecCfg in which the simulator keeps going: the clock runs and
\* a task whose trigger fired is resumed (nothing is assumed of the target)
SpecLive == SpecCfg /\ WF_vars(NextCfg)

\* ------------------------------------------------------------------------
\* Properties
\* ------------------------------------------------------------------------
\* the run uses the queued monitor bus_read_response(dut, expected)
Queued == ~IsTb

\* the values a call for operation k drives, per bus function
DrivenOk(d, k) ==
    /\ d.bus_req_addr = OpAddr(k)
    /\ d.bus_req_byteenable = 3
    /\ IF IsTb
       THEN /\ d.bus_req_valid = 1
            /\ d.bus_req_write = (IF OpKind(k) = 0 THEN 1 ELSE 0)
       ELSE IF OpKind(k) = 0 THEN d.bus_req_write = 1 ELSE d.bus_req_read = 1
    /\ OpKind(k) = 0 => d.bus_req_wdata = OpData(k)

\* number of reads of a sequence of operations
RECURSIVE NumReads(_)
NumReads(seq) ==
    IF seq = << >> THEN 0
    ELSE (IF Head(seq)[1] = 1 THEN 1 ELSE 0) + NumReads(Tail(seq))

\* the comparisons that found a difference / that matched
Mismatches == {k \in 1..Len(compared) : compared[k].data # compared[k].exp}
Matches == {k \in 1..Len(compared) : compared[k].data = compared[k].exp}

\* C1: a call of bus_write / bus_read / single_write / single_read returns
\* only after a rising clock edge at which its request was on the bus and
\* ready was high (the target accepted a request of that call).
C1_ReturnAfterAccept ==
    \A k \in 1..Len(returned) :
       \E j \in 1..Len(accepted) : accepted[j].call = returned[k].op

\* a call that found ready low returned (tests/bus.py), and every operation
\* of the test was accepted
C1_Witness ==
    /\ ~IsTb
    /\ pc["test"] = "t_timer"
    /\ waits = MaxWait
    /\ Len(returned) = Len(test_sequence)

\* C2: from the address phase of a call until the call drives the idle
\* values, valid / the strobe, the address, the write data and the byte
\* enable keep the values of the call, however many edges found ready low;
\* a call is about to drive the idle values only after a request of it was
\* accepted (with ready held low it stays in its wait loop).
C2_RequestHeld ==
    pc["test"] \in InCallPcs =>
       /\ DrivenOk(dut, opi)
       /\ (\A j \in 1..Len(accepted) : accepted[j].call # opi)
             => pc["test"] \in {"b_rise", "s_rise", "s_rw", "s_rise2"}

\* a read of tb/bus.py still asserted after MaxWait edges with ready low
C2_Witness ==
    /\ IsTb
    /\ pc["test"] = "s_rise"
    /\ OpKind(opi) = 1
    /\ waits = MaxWait
    /\ dut.bus_req_ready = 0

\* C3 (as claimed): when single_write or single_read returns, bus_req_valid,
\* bus_req_write, bus_req_addr, bus_req_wdata and bus_req_byteenable are 0.
C3_IdleAtReturn ==
    IsTb =>
       \A k \in 1..Len(returned) :
          /\ returned[k].valid = 0
          /\ returned[k].write = 0
          /\ returned[k].addr = 0
          /\ returned[k].wdata = 0
          /\ returned[k].byteenable = 0

\* C4 (as claimed): the k-th comparison of the queued monitor is of the k-th
\* response of the target with the k-th entry of the expected list.
C4_KthResponseKthEntry ==
    Queued =>
       \A k \in 1..Len(compared) :
          /\ compared[k].exp = expected[k]
          /\ compared[k].rsp = k

\* C5 (as claimed): every cycle with response-valid high consumes one
\* expectation: when the monitor waits for the next response at a rising
\* clock edge, it has made one comparison per response sent so far.
C5_OnePerValidCycle ==
    (Queued /\ pc["mon"] = "m_rvalid" /\ phase = "rise")
       => Len(compared) = rsp_cnt

AcceptedReads == {j \in 1..Len(accepted) : accepted[j].isread}

\* C8 (as claimed): the entries not yet consumed are as many as the reads
\* issued on the bus whose responses have not been observed.
C8_UnconsumedIsInFlight ==
    Queued =>
       Len(expected) - mi = Cardinality(AcceptedReads) - Cardinality(Matches)

\* C8 (amended): the entries not yet consumed are as many as the reads of the
\* operation sequence, issued or still to be issued, whose responses the
\* monitor has not yet observed and matched.
C8_UnconsumedIsScheduled ==
    Queued =>
       Len(expected) - mi = NumReads(test_sequence) - Cardinality(Matches)

\* one response consumed while the last read is still waiting for ready
C8_Witness ==
    /\ Queued
    /\ mi = 1
    /\ pc["test"] = "b_rise"
    /\ opi = Len(test_sequence)
    /\ Len(expected) = 2

\* the positions of the writes of index idx before position p
WritesBefore(seq, p, idx) == {q \in 1..(p - 1) : seq[q] = <<0, idx>>}

\* C9: the first operation of a generated sequence is a write, and every read
\* uses a pool index that an earlier write of the sequence used.
C9_WriteBeforeRead ==
    /\ test_sequence # << >> => test_sequence[1][1] = 0
    /\ \A p \in 1..Len(test_sequence) :
          test_sequence[p][1] = 1 =>
             WritesBefore(test_sequence, p, test_sequence[p][2]) # {}

\* a finished sequence with a read of an index that the first write did not
\* use
C9_Witness ==
    /\ gpc = "ready"
    /\ num_seq >= 1
    /\ \E p \in 1..Len(test_sequence) :
          /\ test_sequence[p][1] = 1
          /\ test_sequence[p][2] # test_sequence[1][2]

\* the indices of the writes of a sequence
WrittenIdx(seq) == {seq[q][2] : q \in {r \in 1..Len(seq) : seq[r][1] = 0}}

\* C10: the valid list holds exactly the indices of the writes scheduled so
\* far, each once; no step removes an index from it; and once the pool is
\* generated no step, of the generation or of a run, changes it.
C10_ValidGrowsPoolFixed ==
    /\ [](/\ Elems(valid_idx) = (IF gpc \in {"pool", "first", "rest", "error"}
                                    \/ variant \in Variants
                                 THEN WrittenIdx(test_sequence)
                                 ELSE {})
          /\ Cardinality(Elems(valid_idx)) = Len(valid_idx))
    /\ [][/\ Elems(valid_idx) \subseteq Elems(valid_idx')
          /\ gpc # "pool" => addr_data' = addr_data]_vars

\* a write of an index that is already valid, after which the list is
\* unchanged, with a second index valid too
C10_Witness ==
    /\ gpc = "rest"
    /\ Len(valid_idx) = 2
    /\ Len(test_sequence) = 3
    /\ test_sequence[3] = <<0, valid_idx[1]>>

\* C11 (as claimed): the generator of tests/test_random.py and test_basic.py
\* produces exactly num_op operations, the first write included.
C11_LengthIsNumOp ==
    (gpc = "ready" /\ variant \in {"test_random", "test_basic"})
       => Len(test_sequence) = num_op

\* the positions of the reads of a sequence, and the rank of a read among them
ReadPositions(seq) == {p \in 1..Len(seq) : seq[p][1] = 1}
ReadRank(seq, p) == Cardinality({q \in ReadPositions(seq) : q <= p})

\* C12: when the generation is done, the expected list has one entry per read
\* of the sequence, in the order of the reads, and the entry of a read of pool
\* index i is the data of addr_data[i].
C12_ExpectedPerRead ==
    (gpc = "ready" /\ variant # "cocotb_random") =>
       /\ Len(expected) = Cardinality(ReadPositions(test_sequence))
       /\ \A p \in ReadPositions(test_sequence) :
             expected[ReadRank(test_sequence, p)]
                = addr_data[test_sequence[p][2] + 1][2]

\* two writes and then two reads of pool entries with different data
C12_Witness ==
    /\ gpc = "ready"
    /\ variant = "test_random"
    /\ Len(expected) = 2
    /\ expected[1] # expected[2]
    /\ ReadPositions(test_sequence) = {3, 4}

\* C13: in the random tests that drive the bus with tests/bus.py, the requests
\* the target accepted are, in order, the operations of test_sequence mapped
\* through addr_data (kind, address, and data of a write), each accepted once
\* and for the call that issued it; when the loop is over every operation was
\* accepted.
C13_AcceptedIsSequence ==
    Queued =>
       /\ Len(accepted) <= Len(test_sequence)
       /\ \A j \in 1..Len(accepted) :
             /\ accepted[j].call = j
             /\ accepted[j].isread = (OpKind(j) = 1)
             /\ accepted[j].read = (IF OpKind(j) = 1 THEN 1 ELSE 0)
             /\ accepted[j].write = (IF OpKind(j) = 0 THEN 1 ELSE 0)
             /\ accepted[j].addr = OpAddr(j)
             /\ OpKind(j) = 0 => accepted[j].wdata = OpData(j)
       /\ pc["test"] \in {"t_timer", "t_join", "t_done"}
             => Len(accepted) = Len(test_sequence)

\* a run of tests/test_random.py over write, read, write of a pair with a
\* non-zero address, after its loop, with a call that found ready low
C13_Witness ==
    /\ variant = "test_random"
    /\ pc["test"] = "t_timer"
    /\ Len(test_sequence) = 3
    /\ OpKind(2) = 1 /\ OpKind(3) = 0
    /\ OpAddr(1) # 0
    /\ Len(accepted) = 3
    /\ waits = MaxWait

\* C14: a run of a queued test passes only after the monitor has returned:
\* in a run that passed, every operation was issued, the monitor made one
\* comparison per read the target accepted, and none found a difference.
C14_PassOnlyAfterJoin ==
    (Queued /\ verdict = "pass") =>
       /\ pc["mon"] = "m_done"
       /\ Len(returned) = Len(test_sequence)
       /\ expected # << >> =>
             /\ Len(compared) = Cardinality(AcceptedReads)
             /\ Len(compared) = NumReads(test_sequence)
             /\ Mismatches = {}

\* the test has issued every operation and waits for the monitor, which still
\* waits for the response of a read the target accepted
C14_Witness ==
    /\ Queued
    /\ pc["test"] = "t_join"
    /\ pc["mon"] = "m_rvalid"
    /\ pend >= 1
    /\ verdict = "running"

\* C15 (as claimed): test_auto_refresh ends without a failure only if every
\* one of its read responses was observed, compared with the written data and
\* found equal.
C15_AllReadsChecked ==
    (variant = "auto_refresh" /\ verdict = "pass") =>
       /\ Len(compared) = NumReads(test_sequence)
       /\ Mismatches = {}

\* C16 (as claimed): in a test that issues a read, a response that differs
\* from the value written fails the test: a single read test that passed got
\* the written data from its monitor.
C16_WrongDataFails ==
    (variant \in BasicVariants /\ verdict = "pass") => rdata = OpData(2)

\* the address and the data of the operation at position p of a sequence
SeqAddr(seq, pool, p) == PoolAt(pool, seq[p][2])[1]
SeqData(seq, pool, p) == PoolAt(pool, seq[p][2])[2]

\* the writes before position p to the address of the operation at p
WritesToAddr(seq, pool, p) ==
    {q \in 1..(p - 1) : seq[q][1] = 0 /\ SeqAddr(seq, pool, q) = SeqAddr(seq, pool, p)}

\* what a memory that completes the requests in issue order returns for the
\* read at position p: the data of the latest write to its address
MemoryData(seq, pool, p) ==
    LET ws == WritesToAddr(seq, pool, p)
        last == CHOOSE q \in ws : \A r \in ws : r <= q
    IN  SeqData(seq, pool, last)

\* C17 (as claimed): for every generated sequence and pool, the value each
\* read is compared with (the data of its pool entry) is the data of the
\* latest earlier write to the address of the read.
C17_ExpectedIsLastWrite ==
    gpc = "ready" =>
       \A p \in ReadPositions(test_sequence) :
          /\ WritesToAddr(test_sequence, addr_data, p) # {}
          /\ SeqData(test_sequence, addr_data, p)
                = MemoryData(test_sequence, addr_data, p)

\* C18 (as claimed): two reads of the same address with no write to that
\* address between them are compared with the same value.
C18_SameAddrSameExpected ==
    (gpc = "ready" /\ variant # "cocotb_random") =>
       \A p, q \in ReadPositions(test_sequence) :
          (/\ p < q
           /\ SeqAddr(test_sequence, addr_data, p) = SeqAddr(test_sequence, addr_data, q)
           /\ \A r \in (p + 1)..(q - 1) :
                 test_sequence[r][1] = 0 =>
                    SeqAddr(test_sequence, addr_data, r)
                       # SeqAddr(test_sequence, addr_data, p))
             => expected[ReadRank(test_sequence, p)]
                   = expected[ReadRank(test_sequence, q)]

\* C19 (as claimed): with num_seq = 0 or num_op = 0 the random test raises
\* before its run begins: the generation never ends ready to run.
C19_DegenerateRejected ==
    (num_seq = 0 \/ num_op = 0) => gpc # "ready"

\* the accepted request that is the k-th accepted read
ReadAccAt(k) ==
    CHOOSE j \in AcceptedReads : Cardinality({i \in AcceptedReads : i <= j}) = k

\* C20 (as claimed): a single_read_resp task started before its read is
\* driven returns the data of the response that is on the bus when it first
\* finds response-valid high, and (for a target that sends one response per
\* accepted read and no other) that response answers the read of the call
\* the task was started for.
C20_SingleShotOwnResponse ==
    [][(/\ variant = "tb_sequential"
        /\ pc["mon"] = "r1_rw"
        /\ pc'["mon"] = "m_done"
        /\ spurious = 0)
          => /\ rdata' = dut.bus_rsp_rdata
             /\ rsp_cnt <= Cardinality(AcceptedReads)
             /\ accepted[ReadAccAt(rsp_cnt)].call = opi]_vars

\* the single_read_resp tasks that have returned: one per read before the
\* operation being issued, and the one of the read being issued when it is done
CapturedReads ==
    NumReads(SubSeq(test_sequence, 1, Min(opi, Len(test_sequence) + 1) - 1))
       + (IF /\ opi >= 1 /\ opi <= Len(test_sequence)
             /\ OpKind(opi) = 1
             /\ pc["mon"] = "m_done"
          THEN 1 ELSE 0)

\* C21 (as claimed): in the tests that start one single_read_resp per read
\* and await it before the next operation, the target (one that sends no
\* response but to an accepted read) never holds more than one accepted read
\* whose response has not been captured.
C21_OneReadInFlight ==
    (variant \in {"tb_sequential", "cocotb_random"} /\ spurious = 0)
       => Cardinality(AcceptedReads) - CapturedReads <= 1

\* C22: in the random tests with the queued monitor, the expectation of every
\* read of the sequence is in the expected list (at the rank of the read,
\* with the data of its pool entry) from the start of the monitor on, so
\* before the request of the read is driven, and no step of the test or of
\* the monitor changes the list.
C22_ExpectedFixedBeforeIssue ==
    /\ [](variant \in {"test_random", "test_basic"} =>
            \A p \in ReadPositions(test_sequence) :
               /\ ReadRank(test_sequence, p) <= Len(expected)
               /\ expected[ReadRank(test_sequence, p)] = OpData(p))
    /\ [][expected' = expected]_vars

\* the second read of a run is on the bus, the monitor has consumed the
\* expectation of the first read, and the list still has both entries
C22_Witness ==
    /\ variant = "test_random"
    /\ pc["test"] = "b_rise"
    /\ opi = 3
    /\ OpKind(2) = 1 /\ OpKind(3) = 1
    /\ mi = 1
    /\ Len(expected) = 2

\* the four configuration inputs
CfgOf(d) ==
    <<d.cfg_burst_length, d.cfg_burst_type, d.cfg_cas_latency, d.cfg_burst_mode>>

\* C23: the four cfg_* inputs are driven before the first request is driven,
\* and no step of a bus call, of the monitor or of the test changes them
\* afterwards.
C23_ConfigDrivenOnce ==
    /\ []((ReqStrobe(dut) \/ accepted # << >> \/ pc["test"] \in InCallPcs)
            => \A i \in 1..4 : CfgOf(dut)[i] >= 0)
    /\ [][pc["test"] # "t_config" => CfgOf(dut') = CfgOf(dut)]_vars

\* a run that passed with CAS latency 3 on the input, after a write and a
\* read were accepted and a response was compared
C23_Witness ==
    /\ variant = "test_random"
    /\ verdict = "pass"
    /\ dut.cfg_cas_latency = 3
    /\ Len(accepted) = 2
    /\ Len(compared) = 1

\* C24 (as claimed): the value on cfg_cas_latency after load_config is the
\* cas argument the test passed, whatever the clock frequency of the
\* environment is.
C24_CasIsArgument ==
    (variant = "test_read" /\ pc["test"] # "t_config")
       => dut.cfg_cas_latency = cl

\* the positions of the operations of the runs of SpecCfg (two operations)
CfgCalls == {1, 2}

\* the call of operation k returned
CallReturned(k) == \E r \in 1..Len(returned) : returned[r].op = k

\* the call of operation k has driven its request and the target asserts
\* ready in a cycle the call looks at: bus_write / bus_read look at ready at
\* every rising edge from the address phase on, single_write / single_read
\* after every rising edge from the address phase on
ReadySeen(k) ==
    /\ opi = k
    /\ dut.bus_req_ready = 1
    /\ \/ pc["test"] = "b_rise"
       \/ pc["test"] = "s_rw" /\ phase = "rw"

\* the target asserts ready again and again, and answers every accepted read
ReadyOften == []<>(dut.bus_req_ready = 1)
ReadsAnswered == [](pend > 0 => <>(pend = 0))

LastWriteOf(seq, p, idx) ==
    CHOOSE q \in WritesBefore(seq, p, idx) :
       \A r \in WritesBefore(seq, p, idx) : r <= q

\* the value the test compares the response of the read at position p with:
\* the entry of the expected list, or "data" of stimulus[idx] in the test
\* with one monitor per read
ReadExpectation(p) ==
    IF variant = "cocotb_random" THEN SeqData(test_sequence, addr_data, p)
    ELSE expected[ReadRank(test_sequence, p)]

\* C26: for every read of a generated sequence, a write of the same pool
\* index precedes it, and the value the read is compared with is the data
\* the latest such write carries, also when the index was written again.
C26_RewriteNotStale ==
    gpc = "ready" =>
       \A p \in ReadPositions(test_sequence) :
          LET idx == test_sequence[p][2]
          IN  /\ WritesBefore(test_sequence, p, idx) # {}
              /\ ReadExpectation(p)
                    = SeqData(test_sequence, addr_data,
                              LastWriteOf(test_sequence, p, idx))

\* an index written twice and then read, in a sequence of four operations
\* over a pool of two pairs with different data
C26_Witness ==
    /\ gpc = "ready"
    /\ variant = "test_random"
    /\ Len(test_sequence) = 4
    /\ test_sequence[2] = <<0, test_sequence[1][2]>>
    /\ test_sequence[3] = <<1, test_sequence[1][2]>>
    /\ num_seq = 2
    /\ addr_data[1][2] # addr_data[2][2]

\* the rising edges at which the target accepted a request of the call of
\* operation k (call 0: a request on the bus while no call is in progress)
AcceptsOf(k) == {j \in 1..Len(accepted) : accepted[j].call = k}

\* C27 (as claimed): with tb/bus.py, every call of single_write or
\* single_read has at most one rising edge at which the target accepts its
\* request, and exactly one when it has returned.
C27_OneAcceptPerValidCall ==
    variant = "tb_sequential" =>
       \A k \in 1..Len(test_sequence) :
          /\ Cardinality(AcceptsOf(k)) <= 1
          /\ CallReturned(k) => Cardinality(AcceptsOf(k)) = 1

\* C28: with tests/bus.py, every call of bus_write or bus_read has at most
\* one rising edge at which the target accepts its request, and exactly one
\* when it has returned; outside a call both strobes are low (until a failed
\* assertion ends the run), so the target accepts nothing but the requests of
\* the calls.
C28_OneAcceptPerStrobeCall ==
    variant = "test_sequential" =>
       /\ \A k \in 1..Len(test_sequence) :
             /\ Cardinality(AcceptsOf(k)) <= 1
             /\ CallReturned(k) => Cardinality(AcceptsOf(k)) = 1
       /\ AcceptsOf(0) = {}
       /\ (pc["test"] \notin InCallPcs /\ verdict # "fail")
             => dut.bus_req_read = 0 /\ dut.bus_req_write = 0

\* after the last call of a run with two writes and two reads, a clock edge
\* passed with ready high and nothing more was accepted; a call had found
\* ready low before
C28_Witness ==
    /\ variant = "test_sequential"
    /\ Len(test_sequence) = 4
    /\ Len(returned) = 4
    /\ Len(accepted) = 4
    /\ phase = "rise"
    /\ dut.bus_req_ready = 1
    /\ waits = MaxWait

\* C29 (as claimed): in a run of tb/bus.py whose writes are followed by idle
\* time, the target accepts no request while no call is in progress: every
\* accepted request is one a call of the test was driving.
C29_NoRequestAfterWrite ==
    variant = "cocotb_random" => AcceptsOf(0) = {}

\* C30 (as claimed): in a run whose sequence has no read, the queued monitor
\* (started with an empty expected list) has finished, without waiting for a
\* response, when the loop of the test is over, so the test is never held at
\* its final join; and the test with one monitor per read does not end in an
\* error.
C30_NoReadRunEnds ==
    (variant \in Variants /\ NumReads(test_sequence) = 0) =>
       /\ (Queued /\ pc["test"] = "t_timer") => pc["mon"] = "m_done"
       /\ pc["test"] \notin {"t_join", "t_error"}
       /\ verdict # "fail"

\* the request the target latched is the request of the call of operation k
\* and of nothing else: kind, address and byte enable of the call, the data of
\* a write, and 0 (the idle value) in the write data of a read
LatchedIsCall(a, k) ==
    /\ a.addr = OpAddr(k)
    /\ a.byteenable = 3
    /\ a.isread = (OpKind(k) = 1)
    /\ a.wdata = (IF OpKind(k) = 0 THEN OpData(k) ELSE 0)
    /\ IF IsTb
       THEN a.valid = 1 /\ a.write = (IF OpKind(k) = 0 THEN 1 ELSE 0)
       ELSE /\ a.write = (IF OpKind(k) = 0 THEN 1 ELSE 0)
            /\ a.read = (IF OpKind(k) = 1 THEN 1 ELSE 0)

\* C31 (as claimed): every request the target accepted was on the bus for a
\* call of the test, and kind, address, byte enable and write data it latched
\* are the arguments of that call, with no value left from an earlier request.
C31_AcceptedIsCallArgs ==
    \A j \in 1..Len(accepted) :
       /\ accepted[j].call # 0
       /\ LatchedIsCall(accepted[j], accepted[j].call)

\* C32: with tests/bus.py, bus_req_read and bus_req_write are never both
\* asserted, and whenever both are 0 after a call has returned, bus_req_addr
\* and bus_req_byteenable are 0.
C32_StrobesExclusive ==
    Queued =>
       /\ ~(dut.bus_req_read = 1 /\ dut.bus_req_write = 1)
       /\ (dut.bus_req_read = 0 /\ dut.bus_req_write = 0 /\ returned # << >>)
             => dut.bus_req_addr = 0 /\ dut.bus_req_byteenable = 0

\* a write of a non-zero address is on the bus right after a read returned
C32_Witness ==
    /\ variant = "test_random"
    /\ Len(test_sequence) = 3
    /\ OpKind(2) = 1 /\ OpKind(3) = 0
    /\ Len(returned) = 2
    /\ pc["test"] = "b_rise"
    /\ dut.bus_req_write = 1
    /\ dut.bus_req_addr # 0

\* C33: in write2read, while the test waits in single_read_resp (called after
\* single_read returned), a response is still to come or is on the bus in a
\* cycle the call looks at: with a response latency of one cycle or more, no
\* response-valid pulse has passed that the test would wait for.
C33_LateMonitorCatchesResponse ==
    (variant \in PipeVariants /\ pc["test"] = "t_join_rd"
        /\ pc["mon"] \in {"r1_rise", "r1_rw"})
       => \/ pend > 0
          \/ pc["mon"] = "r1_rw" /\ dut.bus_rsp_valid = 1

\* a run passed in which the read was accepted twice and its call had found
\* ready low
C33_Witness ==
    /\ variant \in PipeVariants
    /\ verdict = "pass"
    /\ Cardinality(AcceptsOf(3)) = 2
    /\ waits = MaxWait
    /\ rdata = OpData(3)

\* the fields of an address made with the row width raw and column width caw
BankOf(addr, raw, caw) == addr \div 2^(raw + caw)
RowOf(addr, raw, caw) == (addr \div 2^caw) % 2^raw
ColOf(addr, raw, caw) == addr % 2^caw

\* the calls whose row and column fit the widths
InWidths(g) == g.row < 2^g.raw /\ g.col < 2^g.caw

\* C34: for a row and a column inside the widths addr_gen returns
\* bank * 2^(raw+caw) + row * 2^caw + col (2^22 and 2^10 with the default
\* widths), the three fields are recovered from the address, and no other
\* call inside the widths returns the same address; the stimuli of the
\* manual precharge tests have their rows and columns inside the default
\* widths and go to the banks 0, 1, 2, 3 in this order.
C34_AddrGenPacksFields ==
    /\ (gen_call.addr # -1 /\ InWidths(gen_call)) =>
          /\ gen_call.addr = gen_call.bank * 2^(gen_call.raw + gen_call.caw)
                               + gen_call.row * 2^gen_call.caw + gen_call.col
          /\ gen_call.raw = DefaultRaw /\ gen_call.caw = DefaultCaw
                => gen_call.addr = gen_call.bank * 4194304
                                     + gen_call.row * 1024 + gen_call.col
          /\ BankOf(gen_call.addr, gen_call.raw, gen_call.caw) = gen_call.bank
          /\ RowOf(gen_call.addr, gen_call.raw, gen_call.caw) = gen_call.row
          /\ ColOf(gen_call.addr, gen_call.raw, gen_call.caw) = gen_call.col
          /\ \A g \in GenCalls :
                (g.raw = gen_call.raw /\ g.caw = gen_call.caw /\ InWidths(g)
                   /\ AddrGen(g.bank, g.row, g.col, g.raw, g.caw)
                         = gen_call.addr)
                => g.bank = gen_call.bank /\ g.row = gen_call.row
                      /\ g.col = gen_call.col
    /\ \A i \in 1..Len(stimulus) :
          /\ RowStep * i < 2^DefaultRaw
          /\ ColStep * i < 2^DefaultCaw
          /\ BankOf(stimulus[i][1], DefaultRaw, DefaultCaw) = i - 1
          /\ RowOf(stimulus[i][1], DefaultRaw, DefaultCaw) = RowStep * i
          /\ ColOf(stimulus[i][1], DefaultRaw, DefaultCaw) = ColStep * i
          /\ \A j \in 1..Len(stimulus) :
                j # i => BankOf(stimulus[j][1], DefaultRaw, DefaultCaw)
                            # BankOf(stimulus[i][1], DefaultRaw, DefaultCaw)

\* the four stimuli are built and addr_gen returned for the largest row and
\* column of the default widths
C34_Witness ==
    /\ Len(stimulus) = PrechargeNum
    /\ stimulus[PrechargeNum][1] = 3 * 4194304 + 1024 * 1024 + 64
    /\ gen_call.raw = DefaultRaw /\ gen_call.caw = DefaultCaw
    /\ gen_call.bank = MaxBank
    /\ gen_call.row = 2^DefaultRaw - 1
    /\ gen_call.col = 2^DefaultCaw - 1
    /\ gen_call.addr = (MaxBank + 1) * 4194304 - 1

====
